---- MODULE Spec2Model ----
(***************************************************************************)
(* Model of c3aidatalake.py: read_data_json, fetch, evalmetrics and        *)
(* getprojectionhistory.  A column name is a sequence of one-character     *)
(* strings so that the substring tests and the str.replace of the source   *)
(* are computed and not assumed.  A DataFrame is the sequence of its       *)
(* columns; a column carries its current name, the name it had in the      *)
(* server's response (which identifies its values) and whether its values  *)
(* went through pd.to_datetime.                                            *)
(***************************************************************************)
EXTENDS Integers, Sequences, FiniteSets, TLC

\* ---------------------------------------------------------------- bounds
MaxPages == 3
MaxObjs == 2
MaxCols == 3
MaxIds == 25
MaxExprs == 5

\* ------------------------------------------------------ program constants
FetchLimit == 2000
IdsBatch == 10
ExprBatch == 4
HttpOk == 200

\* ------------------------------------------------ column names and needles
n_id == <<"i", "d">>
n_value == <<"v", "a", "l", "u", "e">>
n_meta_source == <<"m", "e", "t", "a", ".", "s", "o", "u", "r", "c", "e">>
n_version_tag == <<"v", "e", "r", "s", "i", "o", "n", ".", "t", "a", "g">>
n_Meta_Version == <<"M", "e", "t", "a", ".", "V", "e", "r", "s", "i", "o", "n">>
n_expr1_dates == <<"e", "x", "p", "r", "1", ".", "d", "a", "t", "e", "s">>
n_expr2_dates == <<"e", "x", "p", "r", "2", ".", "d", "a", "t", "e", "s">>
n_expr1_data == <<"e", "x", "p", "r", "1", ".", "d", "a", "t", "a">>
n_expr1_missing == <<"e", "x", "p", "r", "1", ".", "m", "i", "s", "s", "i", "n", "g">>
n_projection_value_value == <<"p", "r", "o", "j", "e", "c", "t", "i", "o", "n", ".", "v", "a", "l", "u", "e", ".", "v", "a", "l", "u", "e">>
n_a_dot_valuevalue == <<"a", ".", ".", "v", "a", "l", "u", "e", "v", "a", "l", "u", "e">>
n_datestamp == <<"d", "a", "t", "e", "s", "t", "a", "m", "p">>
n_projection == <<"p", "r", "o", "j", "e", "c", "t", "i", "o", "n">>
n_a_value == <<"a", ".", "v", "a", "l", "u", "e">>
s_meta == <<"m", "e", "t", "a">>
s_version == <<"v", "e", "r", "s", "i", "o", "n">>
s_dates == <<"d", "a", "t", "e", "s">>
s_data == <<"d", "a", "t", "a">>
s_missing == <<"m", "i", "s", "s", "i", "n", "g">>
s_expr == <<"e", "x", "p", "r">>
s_dot_value == <<".", "v", "a", "l", "u", "e">>
s_dot_dates == <<".", "d", "a", "t", "e", "s">>
s_dot_data == <<".", "d", "a", "t", "a">>
s_dot_missing == <<".", "m", "i", "s", "s", "i", "n", "g">>
s_dot_meta_dates == <<".", "m", "e", "t", "a", ".", "d", "a", "t", "e", "s">>

\* The JSON keys the server's responses are drawn from.
FieldNames ==
    { n_id, n_value, n_meta_source, n_version_tag, n_Meta_Version,
      n_expr1_dates, n_expr2_dates, n_expr1_data, n_expr1_missing,
      n_projection_value_value, n_a_dot_valuevalue, n_datestamp }

\* The `message` texts of the server's error bodies.
Messages == {"bad spec", "denied"}

\* The non-200 statuses the server answers with.
ErrorStatuses == {400, 500}

\* ------------------------------------------------------- string functions
Min(a, b) == IF a < b THEN a ELSE b

\* Python `sub in s`.
Contains(s, sub) ==
    \E i \in 1..(Len(s) - Len(sub) + 1) : SubSeq(s, i, i + Len(sub) - 1) = sub

\* The mutant of Replace: str.replace(old, "", 1), only the first occurrence.
RECURSIVE ReplaceFirstOnly(_, _)
ReplaceFirstOnly(s, old) ==
    IF Len(s) < Len(old) THEN s
    ELSE IF SubSeq(s, 1, Len(old)) = old
         THEN SubSeq(s, Len(old) + 1, Len(s))
         ELSE <<Head(s)>> \o ReplaceFirstOnly(Tail(s), old)

\* Python s.replace(old, ""): one scan from the left, each match is cut out
\* and the scan goes on after it; the text already produced is not rescanned.
RECURSIVE Replace(_, _)
Replace(s, old) ==
    IF Len(s) < Len(old) THEN s
    ELSE IF SubSeq(s, 1, Len(old)) = old
         THEN Replace(SubSeq(s, Len(old) + 1, Len(s)), old)
         ELSE <<Head(s)>> \o Replace(Tail(s), old)

\* The mutant of Slice: the slice takes one element too many.
SliceOneMore(seq, start, n) == SubSeq(seq, start + 1, Min(start + n + 1, Len(seq)))

\* Python seq[start : start + n] (start is 0-based).
Slice(seq, start, n) == SubSeq(seq, start + 1, Min(start + n, Len(seq)))

\* The mutant of RangeFrom: the last, partial step is lost.
RECURSIVE RangeFromShort(_, _, _)
RangeFromShort(start, stop, step) ==
    IF start + step > stop THEN <<>>
    ELSE <<start>> \o RangeFromShort(start + step, stop, step)

\* Python range(start, stop, step) for a positive step.
RECURSIVE RangeFrom(_, _, _)
RangeFrom(start, stop, step) ==
    IF start >= stop THEN <<>>
    ELSE <<start>> \o RangeFrom(start + step, stop, step)

\* The iterations of `for a in outer: for b in inner:` in the order they run.
RECURSIVE NestedLoops(_, _)
NestedLoops(outer, inner) ==
    IF outer = <<>> THEN <<>>
    ELSE [j \in 1..Len(inner) |-> <<Head(outer), inner[j]>>]
         \o NestedLoops(Tail(outer), inner)

\* ----------------------------------------------------- DataFrame functions
Column(name) == [name |-> name, orig |-> name, dt |-> FALSE]

Names(df) == [i \in 1..Len(df) |-> df[i].name]

NameSet(df) == {df[i].name : i \in 1..Len(df)}

\* pd.json_normalize: one column per (flattened) key of the response.
JsonNormalize(cols) == [i \in 1..Len(cols) |-> Column(cols[i])]

\* The mutant of AppendFrame's row count: the new page replaces the rows.
AppendRowsReplace(rows, new_rows) == new_rows

\* df.append(new_df): the rows of new_df go under those of df.
AppendRows(rows, new_rows) == rows + new_rows

\* df.append(new_df): the columns are the union, df's first.
AppendFrame(df, new_df) ==
    df \o SelectSeq(new_df, LAMBDA c : c.name \notin NameSet(df))

\* pd.concat([df, new_df], axis = 1): the columns side by side.
ConcatColumns(df, new_df) == df \o new_df

\* The mutant of IsMetaColumn: the test for 'version' is lost.
IsMetaColumnNoVersion(c) == Contains(c, s_meta)

\* ('meta' in c) | ('version' in c)
IsMetaColumn(c) == Contains(c, s_meta) \/ Contains(c, s_version)

\* df.drop(columns = [c for c in df.columns if ...])
DropMeta(df) == SelectSeq(df, LAMBDA c : ~IsMetaColumn(c.name))

\* df.filter(regex = 'p1|p2|...'): re.search of an alternation of literals.
FilterRegex(df, needles) ==
    SelectSeq(df, LAMBDA c : \E n \in needles : Contains(c.name, n))

EvalRegex == {s_dates, s_data, s_missing}

ProjRegex == {s_dates, s_data, s_missing, s_expr}

\* [col for col in df.columns if 'dates' in col]
DateCols(df) == Names(SelectSeq(df, LAMBDA c : Contains(c.name, s_dates)))

\* The mutant of FirstOf: date_cols[-1:], the last dates column is kept.
LastOf(date_cols) ==
    IF date_cols = <<>> THEN <<>> ELSE <<date_cols[Len(date_cols)]>>

\* date_cols[:1]
FirstOf(date_cols) == SubSeq(date_cols, 1, Min(1, Len(date_cols)))

\* date_cols[:1] + [col for col in df.columns if 'dates' not in col]
KeepCols(df) ==
    FirstOf(DateCols(df))
    \o Names(SelectSeq(df, LAMBDA c : ~Contains(c.name, s_dates)))

\* df.filter(items = keep_cols): the columns named in items, in items' order.
FilterItems(df, items) ==
    LET present == SelectSeq(items, LAMBDA r : r \in NameSet(df))
        Pick(r) == CHOOSE i \in 1..Len(df) : df[i].name = r
    IN  [j \in 1..Len(present) |-> df[Pick(present[j])]]

\* df.rename(columns = {old : new})
RenameColumn(df, old, new) ==
    [i \in 1..Len(df) |->
        IF df[i].name = old THEN [df[i] EXCEPT !.name = new] ELSE df[i]]

\* df["dates"] = pd.to_datetime(df["dates"])
ToDatetime(df) ==
    [i \in 1..Len(df) |->
        IF df[i].name = s_dates THEN [df[i] EXCEPT !.dt = TRUE] ELSE df[i]]

\* df.rename(columns = lambda x: x.replace(".value", ""))
SimplifyNames(df) ==
    [i \in 1..Len(df) |-> [df[i] EXCEPT !.name = Replace(df[i].name, s_dot_value)]]

\* ------------------------------------------------------------- the server
NoError == [kind |-> "none", msg |-> ""]

ErrorResponses ==
    { [status |-> st, hasMessage |-> TRUE, message |-> m,
       cols |-> <<>>, nobjs |-> 0, hasMore |-> FALSE] :
            st \in ErrorStatuses, m \in Messages }
    \cup
    { [status |-> st, hasMessage |-> FALSE, message |-> "",
       cols |-> <<>>, nobjs |-> 0, hasMore |-> FALSE] : st \in ErrorStatuses }

OkResponse(cols, nobjs, hasMore) ==
    [status |-> HttpOk, hasMessage |-> FALSE, message |-> "",
     cols |-> cols, nobjs |-> nobjs, hasMore |-> hasMore]

\* Every list of at most MaxCols distinct keys.
ColumnLists ==
    { c \in UNION { [1..k -> FieldNames] : k \in 0..MaxCols } :
        \A i, j \in 1..Len(c) : i # j => c[i] # c[j] }

\* The key lists of the pages of a paginated fetch.
PageShapes ==
    { <<n_id, n_meta_source, n_version_tag, n_value>>,
      <<n_id, n_value>>,
      <<n_id, n_Meta_Version>> }

\* A page of `objs`: no object gives no column.
PageResponses(shapes) ==
    { OkResponse(<<>>, 0, hm) : hm \in BOOLEAN }
    \cup { OkResponse(c, n, hm) : c \in shapes, n \in 1..MaxObjs, hm \in BOOLEAN }

\* The `result` of one evalmetrics batch: its keys start with the batch's
\* own prefix, so that two batches never share a key.
BatchShapes(k) ==
    LET prefix == <<"b", <<"1", "2", "3", "4", "5", "6", "7", "8", "9">>[k]>>
    IN  { <<>>,
          <<prefix \o s_dot_dates, prefix \o s_dot_data>>,
          <<prefix \o s_dot_data, prefix \o s_dot_missing>>,
          <<prefix \o s_dot_meta_dates>> }

\* --------------------------------------------------------- read_data_json
\* The mutant of ReadDataJson: the status is not looked at.
ReadDataJsonNoStatus(resp) == [raised |-> FALSE, error |-> NoError]

\* if response.status_code != 200: raise Exception(response.json()["message"])
\* A body without "message" makes the subscript raise KeyError('message').
ReadDataJson(resp) ==
    IF resp.status # HttpOk
    THEN [raised |-> TRUE,
          error |-> IF resp.hasMessage
                    THEN [kind |-> "Exception", msg |-> resp.message]
                    ELSE [kind |-> "KeyError", msg |-> "message"]]
    ELSE [raised |-> FALSE, error |-> NoError]

\* ------------------------------------------------------- after the requests
\* The mutant of FirstDateCol: a missing dates column is passed over.
FirstDateColOrDates(date_cols) ==
    [raised |-> FALSE, col |-> IF date_cols = <<>> THEN s_dates ELSE date_cols[1]]

\* date_cols[0]: IndexError on an empty list.
FirstDateCol(date_cols) ==
    IF date_cols = <<>> THEN [raised |-> TRUE, col |-> <<>>]
    ELSE [raised |-> FALSE, col |-> date_cols[1]]

\* "only keep one date column": the four lines shared by evalmetrics and
\* getprojectionhistory.  parses is whether pd.to_datetime accepts the values.
UnifyDates(df, parses) ==
    LET date_cols == DateCols(df)
        keep_cols == KeepCols(df)
        first == FirstDateCol(date_cols)
    IN  IF first.raised
        THEN [raised |-> TRUE, error |-> [kind |-> "IndexError", msg |-> ""], df |-> <<>>]
        ELSE IF ~parses
        THEN [raised |-> TRUE, error |-> [kind |-> "ValueError", msg |-> ""], df |-> <<>>]
        ELSE [raised |-> FALSE, error |-> NoError,
              df |-> ToDatetime(RenameColumn(FilterItems(df, keep_cols), first.col, s_dates))]

\* fetch, from `if remove_meta:` to the return.
FetchTail(df, rm) == IF rm THEN DropMeta(df) ELSE df

\* evalmetrics, from `# get the useful data out` to the return.
EvalTail(df, rm, parses) ==
    UnifyDates(IF rm THEN FilterRegex(df, EvalRegex) ELSE df, parses)

\* getprojectionhistory, from `# get the useful data out` to the rename.
ProjTail(df, rm, parses) ==
    UnifyDates(IF rm THEN FilterRegex(df, ProjRegex) ELSE df, parses)

\* ------------------------------------------------------------------- state
VARIABLES
    op,           \* the function called: "fetch", "evalmetrics", "getprojectionhistory"
    get_all,      \* its argument get_all
    remove_meta,  \* its argument remove_meta
    body,         \* body['spec'], the caller's object, updated in place
    pc,           \* "start", "loop", "wait" (a request is out), "done"
    has_more,     \* fetch: local has_more
    offset,       \* fetch: local offset
    limit,        \* fetch: local limit
    ids,          \* evalmetrics: local ids
    expressions,  \* evalmetrics: local expressions
    todo,         \* evalmetrics: the (ids_start, expressions_start) still to run
    df,           \* local df as the requests leave it
    nrows,        \* fetch: len(df)
    unified,      \* local df after `df["dates"] = pd.to_datetime(df["dates"])`
    calls,        \* the JSON bodies posted so far, in order
    responses,    \* the responses received so far, in order
    outcome,      \* "running", "returned", "raised"
    error,        \* the exception raised
    result        \* the DataFrame returned

vars == <<op, get_all, remove_meta, body, pc, has_more, offset, limit, ids,
          expressions, todo, df, nrows, unified, calls, responses, outcome,
          error, result>>

\* What the caller put in spec['limit'] and spec['offset'].
CallerLimits == {5, 2000}

CallerOffsets == {0, 7}

Iota(n) == [i \in 1..n |-> i]

Init ==
    /\ op \in {"fetch", "evalmetrics", "getprojectionhistory"}
    /\ get_all \in BOOLEAN
    /\ remove_meta \in BOOLEAN
    /\ op = "getprojectionhistory" => ~get_all
    /\ \E l \in CallerLimits, o \in CallerOffsets, n \in 0..MaxIds, m \in 0..MaxExprs :
          /\ op # "fetch" => l = 5 /\ o = 0
          /\ op # "evalmetrics" => n = 0 /\ m = 0
          /\ (op = "evalmetrics" /\ ~get_all) => n \in {0, MaxIds} /\ m \in {0, MaxExprs}
          /\ body = [limit |-> l, offset |-> o, ids |-> Iota(n), expressions |-> Iota(m)]
    /\ pc = "start"
    /\ has_more = FALSE
    /\ offset = 0
    /\ limit = 0
    /\ ids = <<>>
    /\ expressions = <<>>
    /\ todo = <<>>
    /\ df = <<>>
    /\ nrows = 0
    /\ unified = <<>>
    /\ calls = <<>>
    /\ responses = <<>>
    /\ outcome = "running"
    /\ error = NoError
    /\ result = <<>>

Raise(e) ==
    /\ outcome' = "raised"
    /\ error' = e
    /\ pc' = "done"
    /\ UNCHANGED <<result, unified>>

\* -------------------------------------------------------------------- fetch
\* get_all: `while has_more:` entered, the spec updated and the request sent;
\* otherwise the request of the else branch sent.
FetchRequest ==
    /\ op = "fetch"
    /\ pc \in {"start", "loop"}
    /\ Len(calls) < MaxPages
    /\ IF get_all
       THEN LET off == IF pc = "start" THEN 0 ELSE offset
            IN  /\ offset' = off
                /\ limit' = FetchLimit
                /\ body' = [body EXCEPT !.limit = FetchLimit, !.offset = off]
       ELSE UNCHANGED <<offset, limit, body>>
    /\ has_more' = get_all
    /\ calls' = Append(calls, body')
    /\ pc' = "wait"
    /\ UNCHANGED <<op, get_all, remove_meta, ids, expressions, todo,
                   df, nrows, unified, responses, outcome, error, result>>

\* The mutant of NextOffset: the offset moves by one record.
NextOffsetByOne(off, lim) == off + 1

\* offset += limit
NextOffset(off, lim) == off + lim

\* has_more = response_json['hasMore']
HasMore(resp) == resp.hasMore

\* read_data_json returns or raises; the page is appended; the loop is left
\* when has_more is false, and the function then runs to its return.
FetchResponse ==
    /\ op = "fetch"
    /\ pc = "wait"
    /\ \E resp \in ErrorResponses \cup
                   PageResponses(IF get_all THEN PageShapes ELSE ColumnLists \ {<<>>}) :
        /\ responses' = Append(responses, resp)
        /\ IF ReadDataJson(resp).raised
           THEN /\ Raise(ReadDataJson(resp).error)
                /\ UNCHANGED <<has_more, offset, df, nrows>>
           ELSE LET new_df == JsonNormalize(resp.cols)
                    df1 == IF get_all THEN AppendFrame(df, new_df) ELSE new_df
                    more == get_all /\ HasMore(resp)
                IN  /\ df' = df1
                    /\ nrows' = IF get_all THEN AppendRows(nrows, resp.nobjs) ELSE resp.nobjs
                    /\ has_more' = more
                    /\ offset' = IF get_all THEN NextOffset(offset, limit) ELSE offset
                    /\ IF more
                       THEN /\ pc' = "loop"
                            /\ UNCHANGED <<outcome, error, result, unified>>
                       ELSE /\ pc' = "done"
                            /\ outcome' = "returned"
                            /\ result' = FetchTail(df1, remove_meta)
                            /\ UNCHANGED <<error, unified>>
    /\ UNCHANGED <<op, get_all, remove_meta, body, limit, ids, expressions, todo, calls>>

\* -------------------------------------------------------------- evalmetrics
\* The (ids_start, expressions_start) of the two nested for loops.
Batches(n, m) ==
    NestedLoops(RangeFrom(0, n, IdsBatch), RangeFrom(0, m, ExprBatch))

\* The function has run its requests: the rest of evalmetrics up to the return.
EvalFinish(table) ==
    \E parses \in BOOLEAN :
        LET t == EvalTail(table, remove_meta, parses)
        IN  IF t.raised
            THEN Raise(t.error)
            ELSE /\ outcome' = "returned"
                 /\ unified' = t.df
                 /\ result' = t.df
                 /\ pc' = "done"
                 /\ UNCHANGED error

\* get_all: the loop variables take their next values, the spec is updated
\* with the two slices and the request is sent; otherwise the request of the
\* else branch is sent.
EvalRequest ==
    /\ op = "evalmetrics"
    /\ pc \in {"start", "loop"}
    /\ IF get_all
       THEN LET ids0 == IF pc = "start" THEN body.ids ELSE ids
                exprs0 == IF pc = "start" THEN body.expressions ELSE expressions
                todo0 == IF pc = "start" THEN Batches(Len(ids0), Len(exprs0)) ELSE todo
            IN  /\ todo0 # <<>>
                /\ ids' = ids0
                /\ expressions' = exprs0
                /\ body' = [body EXCEPT
                              !.ids = Slice(ids0, Head(todo0)[1], IdsBatch),
                              !.expressions = Slice(exprs0, Head(todo0)[2], ExprBatch)]
                /\ todo' = Tail(todo0)
       ELSE UNCHANGED <<ids, expressions, body, todo>>
    /\ calls' = Append(calls, body')
    /\ pc' = "wait"
    /\ UNCHANGED <<op, get_all, remove_meta, has_more, offset, limit, df, nrows,
                   unified, responses, outcome, error, result>>

\* get_all with no id or no expression: neither loop body runs, and the
\* function goes on with the empty DataFrame.
EvalNoBatch ==
    /\ op = "evalmetrics"
    /\ pc = "start"
    /\ get_all
    /\ Batches(Len(body.ids), Len(body.expressions)) = <<>>
    /\ ids' = body.ids
    /\ expressions' = body.expressions
    /\ EvalFinish(df)
    /\ UNCHANGED <<op, get_all, remove_meta, body, has_more, offset, limit, todo,
                   df, nrows, calls, responses>>

\* read_data_json returns or raises; the batch is put beside the columns so
\* far; after the last batch the function runs to its return.
EvalResponse ==
    /\ op = "evalmetrics"
    /\ pc = "wait"
    /\ \E resp \in ErrorResponses \cup
                   { OkResponse(c, 0, FALSE) :
                        c \in IF get_all THEN BatchShapes(Len(calls)) ELSE ColumnLists } :
        /\ responses' = Append(responses, resp)
        /\ IF ReadDataJson(resp).raised
           THEN /\ Raise(ReadDataJson(resp).error)
                /\ UNCHANGED df
           ELSE LET new_df == JsonNormalize(resp.cols)
                    df1 == IF get_all THEN ConcatColumns(df, new_df) ELSE new_df
                IN  /\ df' = df1
                    /\ IF get_all /\ todo # <<>>
                       THEN /\ pc' = "loop"
                            /\ UNCHANGED <<outcome, error, result, unified>>
                       ELSE EvalFinish(df1)
    /\ UNCHANGED <<op, get_all, remove_meta, body, has_more, offset, limit, ids,
                   expressions, todo, nrows, calls>>

\* ----------------------------------------------------- getprojectionhistory
ProjRequest ==
    /\ op = "getprojectionhistory"
    /\ pc = "start"
    /\ calls' = Append(calls, body)
    /\ pc' = "wait"
    /\ UNCHANGED <<op, get_all, remove_meta, body, has_more, offset, limit, ids,
                   expressions, todo, df, nrows, unified, responses, outcome,
                   error, result>>

ProjResponse ==
    /\ op = "getprojectionhistory"
    /\ pc = "wait"
    /\ \E resp \in ErrorResponses \cup { OkResponse(c, 0, FALSE) : c \in ColumnLists },
          parses \in BOOLEAN :
        /\ responses' = Append(responses, resp)
        /\ IF ReadDataJson(resp).raised
           THEN /\ Raise(ReadDataJson(resp).error)
                /\ UNCHANGED df
           ELSE LET df1 == JsonNormalize(resp.cols)
                    t == ProjTail(df1, remove_meta, parses)
                IN  /\ df' = df1
                    /\ IF t.raised
                       THEN Raise(t.error)
                       ELSE /\ outcome' = "returned"
                            /\ unified' = t.df
                            /\ result' = SimplifyNames(t.df)
                            /\ pc' = "done"
                            /\ UNCHANGED error
    /\ UNCHANGED <<op, get_all, remove_meta, body, has_more, offset, limit, ids,
                   expressions, todo, nrows, calls>>

Next ==
    \/ FetchRequest
    \/ FetchResponse
    \/ EvalRequest
    \/ EvalNoBatch
    \/ EvalResponse
    \/ ProjRequest
    \/ ProjResponse

Spec == Init /\ [][Next]_vars

\* ------------------------------------------------------------ properties
Last(seq) == seq[Len(seq)]

RECURSIVE SumObjs(_)
SumObjs(pages) == IF pages = <<>> THEN 0 ELSE Head(pages).nobjs + SumObjs(Tail(pages))

AllOk(rs) == \A i \in 1..Len(rs) : rs[i].status = HttpOk

Ceil(a, b) == (a + b - 1) \div b

IsDates(name) == Contains(name, s_dates)

\* C1: a paginated fetch sends a request only while every earlier page said
\* hasMore, it returns as soon as a page says hasMore is false, no request
\* follows that page, and the rows returned are the sum of the `objs` of
\* exactly the pages received.
C1_PaginationStopsAndCounts ==
    (op = "fetch" /\ get_all) =>
        /\ \A i \in 1..Len(calls) : \A j \in 1..(i - 1) :
              j <= Len(responses) /\ responses[j].status = HttpOk /\ responses[j].hasMore
        /\ (responses # <<>> /\ Last(responses).status = HttpOk /\ ~Last(responses).hasMore)
              => (outcome = "returned" /\ pc = "done")
        /\ outcome = "returned" =>
              /\ Len(calls) = Len(responses)
              /\ ~Last(responses).hasMore
              /\ nrows = SumObjs(responses)

C1_Witness ==
    /\ op = "fetch" /\ get_all /\ outcome = "returned"
    /\ Len(responses) = 3
    /\ responses[2].nobjs = 0
    /\ responses[1].nobjs = 2 /\ responses[3].nobjs = 1
    /\ nrows = 3

\* C2: when no request fails, evalmetrics with get_all has sent exactly
\* ceil(N/10) * ceil(M/4) requests by the time it ends, N and M being the
\* numbers of ids and of expressions.
C2_CallCount ==
    (op = "evalmetrics" /\ get_all /\ pc = "done" /\ AllOk(responses)) =>
        Len(calls) = Ceil(Len(ids), 10) * Ceil(Len(expressions), 4)

C2_Witness ==
    /\ op = "evalmetrics" /\ get_all /\ outcome = "returned"
    /\ Len(ids) = 25 /\ Len(expressions) = 5
    /\ Len(calls) = 6

\* C3: a response with a status other than 200 and a message m ends the
\* function at once with an error carrying m: nothing is returned, although
\* earlier batches may have been merged, and the failing request is the last.
C3_ErrorAborts ==
    \A i \in 1..Len(responses) :
        (responses[i].status # HttpOk /\ responses[i].hasMessage) =>
            /\ i = Len(responses)
            /\ Len(calls) = i
            /\ pc = "done"
            /\ outcome = "raised"
            /\ error = [kind |-> "Exception", msg |-> responses[i].message]
            /\ result = <<>>

C3_Witness ==
    /\ op = "evalmetrics" /\ get_all
    /\ Len(responses) = 3
    /\ Last(responses).status = 400 /\ Last(responses).message = "bad spec"
    /\ df # <<>>
    /\ outcome = "raised" /\ error.msg = "bad spec"
    /\ todo # <<>>

\* C4: a response with a status other than 200 and no `message` in its body
\* surfaces as the same kind of error as one with a message, carrying the
\* text "unknown error".
C4_UnknownError ==
    (responses # <<>> /\ Last(responses).status # HttpOk /\ ~Last(responses).hasMessage) =>
        (outcome = "raised" /\ error = [kind |-> "Exception", msg |-> "unknown error"])

\* C5: the k-th request of evalmetrics with get_all carries the ids of id
\* batch (k-1) div ceil(M/4) and the expressions of expression batch
\* (k-1) mod ceil(M/4), each a run of consecutive positions of the original
\* list, at most 10 ids and 4 expressions; when all requests succeeded, each
\* (id, expression) pair was sent in exactly one request.
C5_BatchSlices ==
    (op = "evalmetrics" /\ get_all) =>
        LET n == Len(ids)
            m == Len(expressions)
            nb == Ceil(m, 4)
            Elems(q) == {q[j] : j \in 1..Len(q)}
        IN  /\ \A k \in 1..Len(calls) :
                  LET ib == (k - 1) \div nb
                      eb == (k - 1) % nb
                  IN  /\ calls[k].ids =
                            [j \in 1..Min(10, n - 10 * ib) |-> ids[10 * ib + j]]
                      /\ calls[k].expressions =
                            [j \in 1..Min(4, m - 4 * eb) |-> expressions[4 * eb + j]]
                      /\ Len(calls[k].ids) \in 1..10
                      /\ Len(calls[k].expressions) \in 1..4
            /\ (pc = "done" /\ AllOk(responses)) =>
                  \A i \in 1..n, e \in 1..m :
                      Cardinality({k \in 1..Len(calls) :
                                      /\ ids[i] \in Elems(calls[k].ids)
                                      /\ expressions[e] \in Elems(calls[k].expressions)}) = 1

C5_Witness ==
    /\ op = "evalmetrics" /\ get_all /\ pc = "wait"
    /\ Len(ids) = 25 /\ Len(expressions) = 5
    /\ Len(calls) = 4
    /\ calls[3].ids = [j \in 1..10 |-> 10 + j] /\ calls[3].expressions = <<1, 2, 3, 4>>
    /\ calls[4].ids = [j \in 1..10 |-> 10 + j] /\ calls[4].expressions = <<5>>

MetaOrVersionNames == {n_meta_source, n_version_tag}

\* C7: fetch with remove_meta returns exactly the columns whose name contains
\* neither "meta" nor "version" (the test is case-sensitive: Meta.Version
\* stays); without remove_meta it returns every column.
C7_MetadataStripping ==
    (op = "fetch" /\ outcome = "returned") =>
        /\ NameSet(result) = IF remove_meta THEN NameSet(df) \ MetaOrVersionNames
                             ELSE NameSet(df)
        /\ Cardinality(NameSet(result)) = Len(result)

C7_Witness ==
    /\ op = "fetch" /\ outcome = "returned" /\ remove_meta
    /\ Names(df) = <<n_id, n_meta_source, n_version_tag, n_value>>
    /\ Names(result) = <<n_id, n_value>>

\* The positions of s at which an occurrence of sub starts.
Occurrences(s, sub) ==
    {p \in 1..(Len(s) - Len(sub) + 1) : SubSeq(s, p, p + Len(sub) - 1) = sub}

\* s without the characters of the occurrences of sub in s.
WithoutOccurrences(s, sub) ==
    LET keep == {q \in 1..Len(s) :
                    ~\E p \in Occurrences(s, sub) : p <= q /\ q < p + Len(sub)}
        Nth(i) == CHOOSE q \in keep : Cardinality({r \in keep : r < q}) = i - 1
    IN  [i \in 1..Cardinality(keep) |-> s[Nth(i)]]

\* C8 as stated: no column name returned by getprojectionhistory contains
\* ".value".
C8_NoDotValueLeft ==
    (op = "getprojectionhistory" /\ outcome = "returned") =>
        \A i \in 1..Len(result) : ~Contains(result[i].name, s_dot_value)

\* C8 as amended: each column name returned by getprojectionhistory is the
\* name before the pass with the characters of every occurrence of ".value"
\* in that name taken out, and nothing else changed.
C8_OccurrencesRemoved ==
    (op = "getprojectionhistory" /\ outcome = "returned") =>
        /\ Len(result) = Len(unified)
        /\ \A i \in 1..Len(result) :
              /\ result[i].name = WithoutOccurrences(unified[i].name, s_dot_value)
              /\ result[i].orig = unified[i].orig

C8_Witness ==
    /\ op = "getprojectionhistory" /\ outcome = "returned"
    /\ \E i \in 1..Len(result) :
          unified[i].name = n_projection_value_value /\ result[i].name = n_projection
    /\ \E i \in 1..Len(result) :
          unified[i].name = n_a_dot_valuevalue /\ result[i].name = n_a_value

\* C9: the k-th request of a paginated fetch carries limit 2000 and offset
\* 2000 * (k - 1) whatever the caller's spec held, and while it is out every
\* earlier response has already been appended to the table.
C9_PageRequests ==
    (op = "fetch" /\ get_all) =>
        /\ \A k \in 1..Len(calls) :
              calls[k].limit = 2000 /\ calls[k].offset = 2000 * (k - 1)
        /\ Len(calls) = Len(responses) + (IF pc = "wait" THEN 1 ELSE 0)
        /\ outcome # "raised" => nrows = SumObjs(responses)

C9_Witness ==
    /\ op = "fetch" /\ get_all /\ pc = "wait"
    /\ Len(calls) = 3 /\ calls[3].offset = 4000
    /\ Len(responses) = 2 /\ nrows = 4

\* C10: evalmetrics and getprojectionhistory return only tables with a column
\* named dates; when every request succeeded and the assembled table has no
\* column whose name contains "dates", the function ends in an IndexError and
\* returns nothing.
C10_DatesOrFailure ==
    (op \in {"evalmetrics", "getprojectionhistory"}) =>
        /\ outcome = "returned" => \E i \in 1..Len(result) : result[i].name = s_dates
        /\ (pc = "done" /\ AllOk(responses) /\ \A j \in 1..Len(df) : ~IsDates(df[j].name))
              => (outcome = "raised" /\ error.kind = "IndexError" /\ result = <<>>)

C10_Witness ==
    /\ op = "evalmetrics" /\ get_all /\ pc = "done"
    /\ Len(ids) = 0 /\ Len(expressions) = 5
    /\ calls = <<>>
    /\ outcome = "raised" /\ error.kind = "IndexError"

====
